---- MODULE Spec2Model ----
(***************************************************************************)
(* Port-binding discovery of server.py: list_open_ports and the prompt     *)
(* check_port_service built on it.  Text is modelled at character level:   *)
(* a Python str is a sequence of one-character strings, so that split,     *)
(* strip, lower, the regular expressions and int() are computed the way    *)
(* the code computes them.  An Optional value is <<>> (None) or <<x>>.     *)
(***************************************************************************)
EXTENDS Integers, Sequences, FiniteSets, TLC

(* ------------------------------------------------------------------ *)
(* Bounds of the model                                                  *)
(* ------------------------------------------------------------------ *)

\* Largest number of lines one external command prints.
MaxLines == 2

(* ------------------------------------------------------------------ *)
(* Python values                                                        *)
(* ------------------------------------------------------------------ *)

None == <<>>
Some(x) == <<x>>
Val(o) == o[1]

\* Truthiness of an Optional[int]: None and 0 are falsy.
TruthyInt(o) == o # None /\ Val(o) # 0

\* The printable ASCII characters in code-point order, from U+0020 (U+0060, the
\* grave accent, is spelled "grave").
Ascii ==
  <<" ", "!", "\"", "#", "$", "%", "&", "'", "(", ")", "*", "+", ",", "-", ".", "/",
    "0", "1", "2", "3", "4", "5", "6", "7", "8", "9", ":", ";", "<", "=", ">", "?",
    "@", "A", "B", "C", "D", "E", "F", "G", "H", "I", "J", "K", "L", "M", "N", "O",
    "P", "Q", "R", "S", "T", "U", "V", "W", "X", "Y", "Z", "[", "\\", "]", "^", "_",
    "grave", "a", "b", "c", "d", "e", "f", "g", "h", "i", "j", "k", "l", "m", "n", "o",
    "p", "q", "r", "s", "t", "u", "v", "w", "x", "y", "z", "{", "|", "}", "~">>

\* ord(c)
Ord(c) == 31 + (CHOOSE i \in 1..Len(Ascii) : Ascii[i] = c)

\* chr(n)
Chr(n) == Ascii[n - 31]

IsSpace(c) == c = " "
IsDigit(c) == c \in {"0", "1", "2", "3", "4", "5", "6", "7", "8", "9"}
IsUpper(c) == Ord(c) >= Ord("A") /\ Ord(c) <= Ord("Z")

\* str.lower()
Lower(s) == [i \in 1..Len(s) |->
               IF IsUpper(s[i]) THEN Chr(Ord(s[i]) + (Ord("a") - Ord("A"))) ELSE s[i]]

\* a < b for two str, as Python compares them: by code point, a proper prefix first.
RECURSIVE StrLess(_, _)
StrLess(a, b) ==
  IF b = <<>> THEN FALSE
  ELSE IF a = <<>> THEN TRUE
  ELSE IF a[1] # b[1] THEN Ord(a[1]) < Ord(b[1])
  ELSE StrLess(Tail(a), Tail(b))

\* int(s) for a non-empty run of decimal digits.
RECURSIVE IntOf(_)
IntOf(s) ==
  IF s = <<>> THEN 0
  ELSE 10 * IntOf(SubSeq(s, 1, Len(s) - 1)) + (Ord(s[Len(s)]) - Ord("0"))

\* First index >= i that is past the end of s or holds no whitespace.
RECURSIVE SkipSpace(_, _)
SkipSpace(s, i) ==
  IF i > Len(s) \/ ~IsSpace(s[i]) THEN i ELSE SkipSpace(s, i + 1)

\* First index >= i that is past the end of s or holds whitespace.
RECURSIVE WordEnd(_, _)
WordEnd(s, i) ==
  IF i > Len(s) \/ IsSpace(s[i]) THEN i ELSE WordEnd(s, i + 1)

\* First index >= i that is past the end of s or holds no digit.
RECURSIVE DigitsEnd(_, _)
DigitsEnd(s, i) ==
  IF i > Len(s) \/ ~IsDigit(s[i]) THEN i ELSE DigitsEnd(s, i + 1)

\* Last index <= i that is 0 or holds no whitespace.
RECURSIVE SkipSpaceBack(_, _)
SkipSpaceBack(s, i) ==
  IF i < 1 \/ ~IsSpace(s[i]) THEN i ELSE SkipSpaceBack(s, i - 1)

\* str.strip()
Strip(s) == SubSeq(s, SkipSpace(s, 1), SkipSpaceBack(s, Len(s)))

\* str.split(None, maxsplit) from index i: words between runs of whitespace; once
\* maxsplit words are cut, the rest of the string is one last piece.
RECURSIVE SplitFrom(_, _, _)
SplitFrom(s, i, maxsplit) ==
  LET a == SkipSpace(s, i) IN
  IF a > Len(s) THEN <<>>
  ELSE IF maxsplit = 0 THEN <<SubSeq(s, a, Len(s))>>
  ELSE LET e == WordEnd(s, a) IN
       <<SubSeq(s, a, e - 1)>> \o SplitFrom(s, e, maxsplit - 1)

\* s[i:] starts with the literal lit.
StartsAt(s, i, lit) ==
  /\ i + Len(lit) - 1 <= Len(s)
  /\ \A k \in 1..Len(lit) : s[i + k - 1] = lit[k]

\* First index >= i that is past the end of s or holds the character c.
RECURSIVE Find(_, _, _)
Find(s, i, c) ==
  IF i > Len(s) \/ s[i] = c THEN i ELSE Find(s, i + 1, c)

(* ------------------------------------------------------------------ *)
(* The service-name database                                            *)
(* ------------------------------------------------------------------ *)

\* The entries of the host's services database the model knows:
\* <<port, protocol, name>>.
ServicesDB ==
  { <<22, <<"t", "c", "p">>, <<"s", "s", "h">>>>,
    <<53, <<"t", "c", "p">>, <<"d", "o", "m", "a", "i", "n">>>>,
    <<53, <<"u", "d", "p">>, <<"d", "o", "m", "a", "i", "n">>>>,
    <<80, <<"t", "c", "p">>, <<"h", "t", "t", "p">>>> }

\* socket.getservbyport(port, proto), with every exception turned into None.
_get_service_name(port, proto) ==
  IF \E e \in ServicesDB : e[1] = port /\ e[2] = proto
  THEN Some((CHOOSE e \in ServicesDB : e[1] = port /\ e[2] = proto)[3])
  ELSE None

(* ------------------------------------------------------------------ *)
(* Primary adapter: one line of ss                                      *)
(* ------------------------------------------------------------------ *)

\* re.search(r':(\d+)$', local): the index of the colon of the leftmost match, or 0.
PortSuffixStart(local) ==
  LET hits == {i \in 1..Len(local) :
                 /\ local[i] = ":"
                 /\ i < Len(local)
                 /\ DigitsEnd(local, i + 1) = Len(local) + 1}
  IN IF hits = {} THEN 0 ELSE CHOOSE i \in hits : \A j \in hits : i <= j

UsersPrefix == <<"u", "s", "e", "r", "s", ":", "(", "(", "\"">>
PidPrefix == <<",", "p", "i", "d", "=">>

\* re.search(r'users:\(\("([^"]+)"(?:,pid=(\d+))?', blob): <<group 1, group 2>> of the
\* leftmost match, each group an Optional str, or None when nothing matches.
UsersMatch(blob) ==
  LET n == Len(UsersPrefix)
      hits == {i \in 1..Len(blob) :
                 /\ StartsAt(blob, i, UsersPrefix)
                 /\ Find(blob, i + n, "\"") <= Len(blob)
                 /\ Find(blob, i + n, "\"") > i + n}
  IN IF hits = {} THEN None
     ELSE LET i == CHOOSE h \in hits : \A k \in hits : h <= k
              q == Find(blob, i + n, "\"")
              d == q + 1 + Len(PidPrefix)
              hasPid == /\ StartsAt(blob, q + 1, PidPrefix)
                        /\ d <= Len(blob)
                        /\ IsDigit(blob[d])
          IN Some(<<Some(SubSeq(blob, i + n, q - 1)),
                    IF hasPid THEN Some(SubSeq(blob, d, DigitsEnd(blob, d) - 1))
                    ELSE None>>)

\* _parse_ss_line(line): None, or the record of the line.
_parse_ss_line(line) ==
  LET parts == SplitFrom(line, 1, 6) IN
  IF Len(parts) < 6 THEN None
  ELSE
    LET proto == parts[1]
        state == parts[2]
        local == parts[5]
        process_blob == IF Len(parts) >= 7 THEN parts[7] ELSE <<>>
        m == PortSuffixStart(local)
        port == IF m # 0 THEN Some(IntOf(SubSeq(local, m + 1, Len(local)))) ELSE None
        local_addr == IF m # 0 THEN SubSeq(local, 1, m - 1) ELSE local
        m2 == UsersMatch(process_blob)
        proc_name == IF m2 # None THEN Val(m2)[1] ELSE None
        pid == IF m2 # None /\ Val(m2)[2] # None
               THEN Some(IntOf(Val(Val(m2)[2]))) ELSE None
    IN Some([proto |-> Lower(proto),
             port |-> port,
             service |-> IF TruthyInt(port)
                         THEN _get_service_name(Val(port), Lower(proto)) ELSE None,
             process |-> proc_name,
             pid |-> pid,
             state |-> state,
             local_addr |-> Some(local_addr)])

(* ------------------------------------------------------------------ *)
(* Fallback adapter: one line of lsof                                   *)
(* ------------------------------------------------------------------ *)

CommandLabel == <<"C", "O", "M", "M", "A", "N", "D">>
Listen == <<"L", "I", "S", "T", "E", "N">>
Tcp == <<"t", "c", "p">>
Udp == <<"u", "d", "p">>

\* The character class [\[\]0-9a-fA-F\.:]
IsAddrChar(c) ==
  \/ IsDigit(c)
  \/ c \in {"[", "]", ".", ":"}
  \/ c \in {"a", "b", "c", "d", "e", "f", "A", "B", "C", "D", "E", "F"}

\* First index >= i that is past the end of s or holds no character of the class.
RECURSIVE AddrEnd(_, _)
AddrEnd(s, i) ==
  IF i > Len(s) \/ ~IsAddrChar(s[i]) THEN i ELSE AddrEnd(s, i + 1)

\* The colons at which r'\s(\*|[\[\]0-9a-fA-F\.:]+):(\d+)' can match when the match
\* starts at the whitespace line[i]: after a single '*', or after a non-empty piece of
\* the run of class characters, and before a digit.
AddrColons(line, i) ==
  IF ~(i <= Len(line) /\ IsSpace(line[i])) THEN {}
  ELSE {k \in (i + 2)..(Len(line) - 1) :
          /\ line[k] = ":"
          /\ IsDigit(line[k + 1])
          /\ \/ k = i + 2 /\ line[i + 1] = "*"
             \/ k < AddrEnd(line, i + 1)}

\* re.search(r'\s(\*|[\[\]0-9a-fA-F\.:]+):(\d+)', line): group 2 of the leftmost match
\* (the class is greedy, so it ends at the last colon that can match), or None.
AddrPortMatch(line) ==
  LET starts == {i \in 1..Len(line) : AddrColons(line, i) # {}} IN
  IF starts = {} THEN None
  ELSE LET i == CHOOSE a \in starts : \A b \in starts : a <= b
           k == CHOOSE a \in AddrColons(line, i) : \A b \in AddrColons(line, i) : a >= b
       IN Some(SubSeq(line, k + 1, DigitsEnd(line, k + 1) - 1))

\* re.search(r'\s(\d+)\s', line): group 1 of the leftmost match, or None.
PidMatch(line) ==
  LET starts == {i \in 1..(Len(line) - 1) :
                   /\ IsSpace(line[i])
                   /\ IsDigit(line[i + 1])
                   /\ DigitsEnd(line, i + 1) <= Len(line)
                   /\ IsSpace(line[DigitsEnd(line, i + 1)])}
  IN IF starts = {} THEN None
     ELSE LET i == CHOOSE a \in starts : \A b \in starts : a <= b
          IN Some(SubSeq(line, i + 1, DigitsEnd(line, i + 1) - 1))

\* re.match(r'^(\S+)', line): group 1, or None.
CmdMatch(line) ==
  IF line = <<>> \/ IsSpace(line[1]) THEN None
  ELSE Some(SubSeq(line, 1, WordEnd(line, 1) - 1))

(* ------------------------------------------------------------------ *)
(* Deduplication and sorting                                            *)
(* ------------------------------------------------------------------ *)

\* Mutant: the local address is part of the key.
DedupeKeyWithAddr(it) == <<it.proto, it.port, it.pid, it.process, it.local_addr>>

\* The key of _dedupe.
DedupeKey(it) == <<it.proto, it.port, it.pid, it.process>>

\* _dedupe(items): the first record of every key, in order.
RECURSIVE DedupeFrom(_, _)
DedupeFrom(items, seen) ==
  IF items = <<>> THEN <<>>
  ELSE LET it == Head(items)
           key == DedupeKey(it)
       IN IF key \notin seen
          THEN <<it>> \o DedupeFrom(Tail(items), seen \cup {key})
          ELSE DedupeFrom(Tail(items), seen)

_dedupe(items) == DedupeFrom(items, {})

\* Mutant: the sort key is the port alone.
SortKeyPortOnly(d) == <<<<>>, IF TruthyInt(d.port) THEN Val(d.port) ELSE 0>>

\* The sort key of list_open_ports: (d.get("proto") or "", d.get("port") or 0).
SortKey(d) == <<d.proto, IF TruthyInt(d.port) THEN Val(d.port) ELSE 0>>

\* a < b for two sort keys, as Python compares tuples.
KeyLess(a, b) ==
  \/ StrLess(a[1], b[1])
  \/ a[1] = b[1] /\ a[2] < b[2]

\* Insert d after every record of the sorted list whose key is not greater.
RECURSIVE InsertSorted(_, _)
InsertSorted(sorted, d) ==
  IF sorted = <<>> THEN <<d>>
  ELSE IF KeyLess(SortKey(d), SortKey(Head(sorted))) THEN <<d>> \o sorted
  ELSE <<Head(sorted)>> \o InsertSorted(Tail(sorted), d)

\* list.sort(key=...): a stable sort.
RECURSIVE SortFrom(_, _)
SortFrom(items, sorted) ==
  IF items = <<>> THEN sorted
  ELSE SortFrom(Tail(items), InsertSorted(sorted, Head(items)))

SortByProtoPort(items) == SortFrom(items, <<>>)

(* ------------------------------------------------------------------ *)
(* What the external commands can print                                 *)
(* ------------------------------------------------------------------ *)

\* tcp LISTEN 0 128 0.0.0.0:22 0.0.0.0:* users:(("sshd",pid=450,fd=3))   -- the example of the specification
SsSshd4 ==
  <<"t", "c", "p", " ", "L", "I", "S", "T", "E", "N", " ", "0", " ", "1", "2", "8",
    " ", "0", ".", "0", ".", "0", ".", "0", ":", "2", "2", " ", "0", ".", "0", ".",
    "0", ".", "0", ":", "*", " ", "u", "s", "e", "r", "s", ":", "(", "(", "\"", "s",
    "s", "h", "d", "\"", ",", "p", "i", "d", "=", "4", "5", "0", ",", "f", "d", "=",
    "3", ")", ")">>

\* tcp LISTEN 0 64 [::]:22 [::]:* users:(("sshd",pid=450,fd=3))   -- same process and port as SsSshd4, another address and backlog
SsSshd6 ==
  <<"t", "c", "p", " ", "L", "I", "S", "T", "E", "N", " ", "0", " ", "6", "4", " ",
    "[", ":", ":", "]", ":", "2", "2", " ", "[", ":", ":", "]", ":", "*", " ", "u",
    "s", "e", "r", "s", ":", "(", "(", "\"", "s", "s", "h", "d", "\"", ",", "p", "i",
    "d", "=", "4", "5", "0", ",", "f", "d", "=", "3", ")", ")">>

\*  udp UNCONN 0 0 127.0.0.1:53 0.0.0.0:*   -- no Process column, leading whitespace
SsDns ==
  <<" ", "u", "d", "p", " ", "U", "N", "C", "O", "N", "N", " ", "0", " ", "0", " ",
    "1", "2", "7", ".", "0", ".", "0", ".", "1", ":", "5", "3", " ", "0", ".", "0",
    ".", "0", ".", "0", ":", "*">>

\* TCP LISTEN 0 5 *:80 *:* users:(("my app"))   -- upper-case Netid, a process name with a space, no pid
SsUpper ==
  <<"T", "C", "P", " ", "L", "I", "S", "T", "E", "N", " ", "0", " ", "5", " ", "*",
    ":", "8", "0", " ", "*", ":", "*", " ", "u", "s", "e", "r", "s", ":", "(", "(",
    "\"", "m", "y", " ", "a", "p", "p", "\"", ")", ")">>

\* LISTEN 0 128 0.0.0.0:22 0.0.0.0:*   -- five fields: no Netid and no Process column
SsNoNetid ==
  <<"L", "I", "S", "T", "E", "N", " ", "0", " ", "1", "2", "8", " ", "0", ".", "0",
    ".", "0", ".", "0", ":", "2", "2", " ", "0", ".", "0", ".", "0", ".", "0", ":",
    "*">>

\* LISTEN 0 128 0.0.0.0:22 0.0.0.0:* users:(("sshd",pid=450,fd=3))   -- six fields without Netid: the fifth is the peer address
SsNoNetidProc ==
  <<"L", "I", "S", "T", "E", "N", " ", "0", " ", "1", "2", "8", " ", "0", ".", "0",
    ".", "0", ".", "0", ":", "2", "2", " ", "0", ".", "0", ".", "0", ".", "0", ":",
    "*", " ", "u", "s", "e", "r", "s", ":", "(", "(", "\"", "s", "s", "h", "d", "\"",
    ",", "p", "i", "d", "=", "4", "5", "0", ",", "f", "d", "=", "3", ")", ")">>

\* udp UNCONN 0 0 *:0 *:*   -- port 0
SsPortZero ==
  <<"u", "d", "p", " ", "U", "N", "C", "O", "N", "N", " ", "0", " ", "0", " ", "*",
    ":", "0", " ", "*", ":", "*">>

\* sctp LISTEN 0 128 *:22 *:*   -- a Netid that is neither tcp nor udp
SsSctp ==
  <<"s", "c", "t", "p", " ", "L", "I", "S", "T", "E", "N", " ", "0", " ", "1", "2",
    "8", " ", "*", ":", "2", "2", " ", "*", ":", "*">>

\* The lines ss prints in the model.
SsLines ==
  {SsSshd4, SsSshd6, SsDns, SsUpper, SsNoNetid, SsNoNetidProc, SsPortZero, SsSctp}

\* COMMAND PID USER FD TYPE DEVICE SIZE/OFF NODE NAME   -- the header line
LsofHeader ==
  <<"C", "O", "M", "M", "A", "N", "D", " ", "P", "I", "D", " ", "U", "S", "E", "R",
    " ", "F", "D", " ", "T", "Y", "P", "E", " ", "D", "E", "V", "I", "C", "E", " ",
    "S", "I", "Z", "E", "/", "O", "F", "F", " ", "N", "O", "D", "E", " ", "N", "A",
    "M", "E">>

\* sshd 450 root 3u IPv4 101 0t0 TCP *:22 (LISTEN)
LsofSshd4 ==
  <<"s", "s", "h", "d", " ", "4", "5", "0", " ", "r", "o", "o", "t", " ", "3", "u",
    " ", "I", "P", "v", "4", " ", "1", "0", "1", " ", "0", "t", "0", " ", "T", "C",
    "P", " ", "*", ":", "2", "2", " ", "(", "L", "I", "S", "T", "E", "N", ")">>

\* sshd 450 root 4u IPv6 102 0t0 TCP [::]:22 (LISTEN)   -- same process and port as LsofSshd4
LsofSshd6 ==
  <<"s", "s", "h", "d", " ", "4", "5", "0", " ", "r", "o", "o", "t", " ", "4", "u",
    " ", "I", "P", "v", "6", " ", "1", "0", "2", " ", "0", "t", "0", " ", "T", "C",
    "P", " ", "[", ":", ":", "]", ":", "2", "2", " ", "(", "L", "I", "S", "T", "E",
    "N", ")">>

\* dnsmasq 7 nobody 4u IPv4 99 0t0 UDP 127.0.0.1:53
LsofDns ==
  <<"d", "n", "s", "m", "a", "s", "q", " ", "7", " ", "n", "o", "b", "o", "d", "y",
    " ", "4", "u", " ", "I", "P", "v", "4", " ", "9", "9", " ", "0", "t", "0", " ",
    "U", "D", "P", " ", "1", "2", "7", ".", "0", ".", "0", ".", "1", ":", "5", "3">>

\* avahi 9 avahi 5u IPv4 98 0t0 UDP *:0   -- port 0
LsofPortZero ==
  <<"a", "v", "a", "h", "i", " ", "9", " ", "a", "v", "a", "h", "i", " ", "5", "u",
    " ", "I", "P", "v", "4", " ", "9", "8", " ", "0", "t", "0", " ", "U", "D", "P",
    " ", "*", ":", "0">>

\* x 8 root 6u IPv4 97 0t0 TCP *:70000 (LISTEN)   -- a port above 65535
LsofBigPort ==
  <<"x", " ", "8", " ", "r", "o", "o", "t", " ", "6", "u", " ", "I", "P", "v", "4",
    " ", "9", "7", " ", "0", "t", "0", " ", "T", "C", "P", " ", "*", ":", "7", "0",
    "0", "0", "0", " ", "(", "L", "I", "S", "T", "E", "N", ")">>

\* node 12 me cwd DIR 8,1 4096 2 /   -- no address:port
LsofNoAddr ==
  <<"n", "o", "d", "e", " ", "1", "2", " ", "m", "e", " ", "c", "w", "d", " ", "D",
    "I", "R", " ", "8", ",", "1", " ", "4", "0", "9", "6", " ", "2", " ", "/">>

\* The lines lsof prints in the model.
LsofLines ==
  {LsofHeader, LsofSshd4, LsofSshd6, LsofDns, LsofPortZero, LsofBigPort, LsofNoAddr}

\* _parse_ss_line(line.strip()) for every line of SsLines, computed once.
SsItemTable == [l \in SsLines |-> _parse_ss_line(Strip(l))]

\* item = _parse_ss_line(line.strip())
SsItem(line) ==
  IF line \in DOMAIN SsItemTable THEN SsItemTable[line] ELSE _parse_ss_line(Strip(line))

\* Mutant: every line that parses is kept, `if item`.
SsKeepsAnyItem(item) == item # None

\* Mutant: the port is tested against None, `item.get("port") is not None`.
SsKeepsPortNotNone(item) == item # None /\ Val(item).port # None

\* `if item and item.get("port")` of _run_ss.
SsKeeps(item) == item # None /\ TruthyInt(Val(item).port)

\* The loop body of _run_ss over the output of one command: the records of the
\* lines that parse and have a truthy port, in line order.
RECURSIVE SsRecords(_)
SsRecords(out) ==
  IF out = <<>> THEN <<>>
  ELSE LET item == SsItem(Head(out)) IN
       (IF SsKeeps(item) THEN <<Val(item)>> ELSE <<>>) \o SsRecords(Tail(out))

\* What parse_lsof reads off one line: whether it is the header, and the matches
\* m, m_pid and m_cmd.
LsofMatches(line) ==
  [header |-> StartsAt(line, 1, CommandLabel),
   m |-> AddrPortMatch(line),
   m_pid |-> PidMatch(line),
   m_cmd |-> CmdMatch(line)]

\* LsofMatches for every line of LsofLines, computed once.
LsofMatchTable == [l \in LsofLines |-> LsofMatches(l)]

LsofFields(line) ==
  IF line \in DOMAIN LsofMatchTable THEN LsofMatchTable[line] ELSE LsofMatches(line)

\* parse_lsof(out, proto_hint): the records it appends to results.
RECURSIVE parse_lsof(_, _)
parse_lsof(out, proto_hint) ==
  IF out = <<>> THEN <<>>
  ELSE
    LET line == Head(out)
        f == LsofFields(line)
    IN (IF f.header \/ f.m = None THEN <<>>
        ELSE <<[proto |-> proto_hint,
                port |-> Some(IntOf(Val(f.m))),
                service |-> _get_service_name(IntOf(Val(f.m)), proto_hint),
                process |-> f.m_cmd,
                pid |-> IF f.m_pid # None THEN Some(IntOf(Val(f.m_pid))) ELSE None,
                state |-> Listen,
                local_addr |-> None]>>)
       \o parse_lsof(Tail(out), proto_hint)

\* The sequences of at most n elements of S.
RECURSIVE SeqsUpTo(_, _)
SeqsUpTo(S, n) ==
  IF n = 0 THEN {<<>>}
  ELSE LET shorter == SeqsUpTo(S, n - 1) IN
       shorter \cup {Append(q, x) : q \in {r \in shorter : Len(r) = n - 1}, x \in S}

(* ------------------------------------------------------------------ *)
(* The prompt's text                                                    *)
(* ------------------------------------------------------------------ *)

\* str(n) for an int.
RECURSIVE StrOfNat(_)
StrOfNat(n) ==
  IF n < 10 THEN <<Chr(Ord("0") + n)>>
  ELSE StrOfNat(n \div 10) \o <<Chr(Ord("0") + (n % 10))>>

StrOf(n) == IF n < 0 THEN <<"-">> \o StrOfNat(0 - n) ELSE StrOfNat(n)

NoProcessHead ==
  <<"N", "o", " ", "p", "r", "o", "c", "e", "s", "s", " ", "i", "s", " ",
    "c", "u", "r", "r", "e", "n", "t", "l", "y", " ", "l", "i", "s", "t", "e", "n", "i",
    "n", "g", " ", "o", "n", " ", "p", "o", "r", "t", " ">>
PortHead == <<"P", "o", "r", "t", " ">>
ServiceHead == <<":", " ", "s", "e", "r", "v", "i", "c", "e", " ", "'">>
ProcessHead == <<"'", ",", " ", "p", "r", "o", "c", "e", "s", "s", " ", "'">>
PidHead == <<"'", " ", "(", "p", "i", "d", " ">>
StateHead == <<")", ",", " ", "s", "t", "a", "t", "e", " ">>
Unknown == <<"u", "n", "k", "n", "o", "w", "n">>
UnknownCustom == <<"u", "n", "k", "n", "o", "w", "n", "/", "c", "u", "s", "t", "o", "m">>

\* x or default, for an Optional[str] x.
OrStr(x, default) == IF x # None /\ Val(x) # <<>> THEN Val(x) ELSE default

\* The line check_port_service writes for one matching record.
PortLine(port, m) ==
  PortHead \o StrOf(port) \o <<"/">> \o (IF m.proto # <<>> THEN m.proto ELSE <<"?">>)
  \o ServiceHead \o OrStr(m.service, UnknownCustom)
  \o ProcessHead \o OrStr(m.process, Unknown)
  \o PidHead \o (IF TruthyInt(m.pid) THEN StrOf(Val(m.pid)) ELSE <<"?">>)
  \o StateHead \o m.state

\* "\n".join(lines)
RECURSIVE JoinLines(_)
JoinLines(lines) ==
  IF lines = <<>> THEN <<>>
  ELSE IF Len(lines) = 1 THEN lines[1]
  ELSE lines[1] \o <<"\n">> \o JoinLines(Tail(lines))

\* Mutant: the comparison never succeeds.
MatchesNothing(all_ports, port) == <<>>

\* The records of all_ports check_port_service keeps.
Matches(all_ports, port) ==
  LET IsMatch(p) == p.port = Some(port) IN SelectSeq(all_ports, IsMatch)

\* The body of check_port_service once list_open_ports has returned all_ports.
check_port_service(port, all_ports) ==
  LET matches == Matches(all_ports, port) IN
  IF matches = <<>> THEN NoProcessHead \o StrOf(port) \o <<".">>
  ELSE JoinLines([i \in 1..Len(matches) |-> PortLine(port, matches[i])])

(* ------------------------------------------------------------------ *)
(* State                                                                *)
(* ------------------------------------------------------------------ *)

VARIABLES
  pc,        \* where the call is: idle, ss, lsof_tcp, lsof_udp, lsof_ret, finish, done, raised
  caller,    \* none, tool (list_open_ports called) or prompt (check_port_service called)
  tcp, udp,  \* the arguments of list_open_ports
  qport,     \* the argument of check_port_service, None for a tool call
  cmds,      \* _run_ss: the commands the loop has not run yet
  results,   \* the list `results` of the adapter that is running
  data,      \* the list `data` of list_open_ports
  running,   \* the external command that is running, or "none"
  spawned,   \* the external commands spawned so far, in order
  lastExit,  \* the last command that ended and the exception it ended with, None before
  lastIO,    \* right after a command ended: its output and `results` as it was before
  ssData,    \* what _run_ss returned, None before it returns
  lsofData,  \* what _run_lsof returned, None when it has not returned
  raw,       \* the list handed to _dedupe, None before
  report,    \* what list_open_ports returned, None before it returns
  answer     \* what check_port_service returned, None before it returns

vars ==
  <<pc, caller, tcp, udp, qport, cmds, results, data, running, spawned, lastExit,
    lastIO, ssData, lsofData, raw, report, answer>>

SsTcpCmd == "ss -H -lptn"
SsUdpCmd == "ss -H -lpnu"
LsofTcpCmd == "lsof -nP -iTCP -sTCP:LISTEN"
LsofUdpCmd == "lsof -nP -iUDP"

\* The ports a caller asks check_port_service about in the model.
PromptPorts == {-1, 22, 70000}

\* How subprocess.check_output ends: it returns the output (out.strip().splitlines(),
\* a list of lines), the command is not installed (FileNotFoundError), or it exits
\* non-zero (CalledProcessError).
Exits(lines) ==
  {[exc |-> "none", out |-> o] : o \in SeqsUpTo(lines, MaxLines)}
  \cup {[exc |-> e, out |-> <<>>] : e \in {"FileNotFoundError", "CalledProcessError"}}

\* What a run of ss and a run of lsof can end with.
SsExits == Exits(SsLines)
LsofExits == Exits(LsofLines)

\* Mutant: the except clause names FileNotFoundError alone.
SsHandledNotFoundOnly == {"FileNotFoundError"}

\* The exceptions the except clause of _run_ss handles.
SsHandled == {"FileNotFoundError", "CalledProcessError"}

\* The exceptions the except clauses of _run_lsof handle.
LsofHandled == {"FileNotFoundError", "CalledProcessError"}

Init ==
  /\ pc = "idle"
  /\ caller = "none"
  /\ tcp = TRUE
  /\ udp = TRUE
  /\ qport = None
  /\ cmds = <<>>
  /\ results = <<>>
  /\ data = <<>>
  /\ running = "none"
  /\ spawned = <<>>
  /\ lastExit = None
  /\ lastIO = None
  /\ ssData = None
  /\ lsofData = None
  /\ raw = None
  /\ report = None
  /\ answer = None

(* ------------------------------------------------------------------ *)
(* Operations                                                           *)
(* ------------------------------------------------------------------ *)

\* list_open_ports(t, u) is entered and calls _run_ss(t, u), which builds cmds.
Enter(t, u, who, port) ==
  /\ pc = "idle"
  /\ pc' = "ss"
  /\ caller' = who
  /\ tcp' = t
  /\ udp' = u
  /\ qport' = port
  /\ cmds' = (IF t THEN <<SsTcpCmd>> ELSE <<>>) \o (IF u THEN <<SsUdpCmd>> ELSE <<>>)
  /\ results' = <<>>
  /\ UNCHANGED <<data, running, spawned, lastExit, lastIO, ssData, lsofData, raw, report,
                 answer>>

\* A caller invokes the tool list_open_ports(tcp, udp).
ListOpenPorts == \E t \in BOOLEAN, u \in BOOLEAN : Enter(t, u, "tool", None)

\* A caller invokes the prompt check_port_service(port), which calls list_open_ports().
CheckPortService == \E p \in PromptPorts : Enter(TRUE, TRUE, "prompt", Some(p))

\* _run_ss: the loop takes the next command and check_output spawns it.
SsSpawn ==
  /\ pc = "ss"
  /\ cmds # <<>>
  /\ running = "none"
  /\ running' = Head(cmds)
  /\ spawned' = Append(spawned, Head(cmds))
  /\ lastIO' = None
  /\ UNCHANGED <<pc, caller, tcp, udp, qport, cmds, results, data, lastExit, ssData,
                 lsofData, raw, report, answer>>

\* _run_ss: the command ends; its lines are parsed, or its exception is handled.
SsExit ==
  /\ pc = "ss"
  /\ running # "none"
  /\ \E x \in SsExits :
       /\ lastExit' = Some([cmd |-> running, exc |-> x.exc])
       /\ lastIO' = Some([out |-> x.out, had |-> results])
       /\ IF x.exc = "none"
          THEN /\ results' = results \o SsRecords(x.out)
               /\ pc' = pc
          ELSE IF x.exc \in SsHandled
          THEN /\ results' = results
               /\ pc' = pc
          ELSE /\ results' = results
               /\ pc' = "raised"
  /\ running' = "none"
  /\ cmds' = Tail(cmds)
  /\ UNCHANGED <<caller, tcp, udp, qport, data, spawned, ssData, lsofData, raw, report,
                 answer>>

\* Mutant: the test is inverted, `if data`.
NeedsFallbackInverted(d) == d # <<>>

\* Mutant: the fallback is run whatever the Primary adapter returned.
NeedsFallbackAlways(d) == TRUE

\* `if not data` of list_open_ports.
NeedsFallback(d) == d = <<>>

\* _run_ss returns; list_open_ports keeps its result or turns to _run_lsof.
SsReturn ==
  /\ pc = "ss"
  /\ cmds = <<>>
  /\ running = "none"
  /\ ssData' = Some(results)
  /\ data' = results
  /\ pc' = IF NeedsFallback(results) THEN "lsof_tcp" ELSE "finish"
  /\ results' = <<>>
  /\ lastIO' = None
  /\ UNCHANGED <<caller, tcp, udp, qport, cmds, running, spawned, lastExit, lsofData, raw,
                 report, answer>>

\* The protocol flag and the command of the step of _run_lsof the call is at.
LsofWanted == IF pc = "lsof_tcp" THEN tcp ELSE udp
LsofCmd == IF pc = "lsof_tcp" THEN LsofTcpCmd ELSE LsofUdpCmd
LsofHint == IF pc = "lsof_tcp" THEN Tcp ELSE Udp
LsofNextPc == IF pc = "lsof_tcp" THEN "lsof_udp" ELSE "lsof_ret"

\* _run_lsof: the protocol was asked for, check_output spawns its command.
LsofSpawn ==
  /\ pc \in {"lsof_tcp", "lsof_udp"}
  /\ running = "none"
  /\ LsofWanted
  /\ running' = LsofCmd
  /\ spawned' = Append(spawned, LsofCmd)
  /\ lastIO' = None
  /\ UNCHANGED <<pc, caller, tcp, udp, qport, cmds, results, data, lastExit, ssData,
                 lsofData, raw, report, answer>>

\* _run_lsof: the protocol was not asked for.
LsofSkip ==
  /\ pc \in {"lsof_tcp", "lsof_udp"}
  /\ running = "none"
  /\ ~LsofWanted
  /\ pc' = LsofNextPc
  /\ lastIO' = None
  /\ UNCHANGED <<caller, tcp, udp, qport, cmds, results, data, running, spawned, lastExit,
                 ssData, lsofData, raw, report, answer>>

\* _run_lsof: the command ends; its lines are parsed, or its exception is handled.
LsofExit ==
  /\ pc \in {"lsof_tcp", "lsof_udp"}
  /\ running # "none"
  /\ \E x \in LsofExits :
       /\ lastExit' = Some([cmd |-> running, exc |-> x.exc])
       /\ lastIO' = Some([out |-> x.out, had |-> results])
       /\ IF x.exc = "none"
          THEN /\ results' = results \o parse_lsof(x.out, LsofHint)
               /\ pc' = LsofNextPc
          ELSE IF x.exc \in LsofHandled
          THEN /\ results' = results
               /\ pc' = LsofNextPc
          ELSE /\ results' = results
               /\ pc' = "raised"
  /\ running' = "none"
  /\ UNCHANGED <<caller, tcp, udp, qport, cmds, data, spawned, ssData, lsofData, raw,
                 report, answer>>

\* _run_lsof returns and its result replaces data.
LsofReturn ==
  /\ pc = "lsof_ret"
  /\ lsofData' = Some(results)
  /\ data' = results
  /\ results' = <<>>
  /\ pc' = "finish"
  /\ lastIO' = None
  /\ UNCHANGED <<caller, tcp, udp, qport, cmds, running, spawned, lastExit, ssData, raw,
                 report, answer>>

\* The tail of list_open_ports: dedupe, sort, return.
Finalize(d) == SortByProtoPort(_dedupe(d))

\* list_open_ports returns; check_port_service, when it is the caller, writes its text.
Finish ==
  /\ pc = "finish"
  /\ raw' = Some(data)
  /\ data' = Finalize(data)
  /\ report' = Some(data')
  /\ answer' = IF caller = "prompt"
               THEN Some(check_port_service(Val(qport), data')) ELSE None
  /\ pc' = "done"
  /\ UNCHANGED <<caller, tcp, udp, qport, cmds, results, running, spawned, lastExit,
                 lastIO, ssData, lsofData>>

Next ==
  \/ ListOpenPorts
  \/ CheckPortService
  \/ SsSpawn
  \/ SsExit
  \/ SsReturn
  \/ LsofSpawn
  \/ LsofSkip
  \/ LsofExit
  \/ LsofReturn
  \/ Finish

Spec == Init /\ [][Next]_vars

(* ------------------------------------------------------------------ *)
(* Properties                                                           *)
(* ------------------------------------------------------------------ *)

Returned == pc = "done"

Range(s) == {s[i] : i \in 1..Len(s)}

\* Every record of recs is a record of the adapter's output.
FromAdapter(recs, adapterOut) == \A i \in 1..Len(recs) : recs[i] \in Range(adapterOut)

\* C1: when _run_ss returns no record, the report is the output of _run_lsof,
\* deduplicated and sorted; and the records of a report all come from one adapter:
\* all from the Primary adapter's output, or all from the Fallback adapter's.
C1_PrimaryOrFallback ==
  Returned =>
    /\ Val(ssData) = <<>> =>
         /\ lsofData # None
         /\ Val(report) = SortByProtoPort(_dedupe(Val(lsofData)))
    /\ \/ FromAdapter(Val(report), Val(ssData))
       \/ lsofData # None /\ FromAdapter(Val(report), Val(lsofData))

\* C1: a call has returned a report of two or more records that the Fallback adapter
\* produced after the Primary adapter returned nothing.
C1_Witness ==
  /\ Returned
  /\ Val(ssData) = <<>>
  /\ lsofData # None
  /\ Len(Val(report)) >= 2

\* The 4-tuple that identifies a binding.
BindingKey(r) == <<r.proto, r.port, r.pid, r.process>>

\* The index of the first record of recs that carries the key k.
FirstWithKey(recs, k) ==
  CHOOSE i \in 1..Len(recs) :
    /\ BindingKey(recs[i]) = k
    /\ \A j \in 1..(i - 1) : BindingKey(recs[j]) # k

\* C2: the report holds exactly one record for every key (proto, port, pid, process)
\* of the adapter's output and no record of any other key, and that record is the
\* first record of the adapter's output with the key.
C2_FirstOccurrenceWins ==
  Returned =>
    LET in == Val(raw)
        out == Val(report)
    IN /\ \A i \in 1..Len(in) :
            LET at == {j \in 1..Len(out) : BindingKey(out[j]) = BindingKey(in[i])} IN
            /\ Cardinality(at) = 1
            /\ \A j \in at : out[j] = in[FirstWithKey(in, BindingKey(in[i]))]
       /\ \A j \in 1..Len(out) : \E i \in 1..Len(in) : BindingKey(out[j]) = BindingKey(in[i])

\* C2: a call has returned, and the adapter's output held two records of one key that
\* differ in state or local_addr.
C2_Witness ==
  /\ Returned
  /\ \E i, j \in 1..Len(Val(raw)) :
       /\ i < j
       /\ BindingKey(Val(raw)[i]) = BindingKey(Val(raw)[j])
       /\ Val(raw)[i] # Val(raw)[j]

\* (protocol, port) of a is lexicographically at most (protocol, port) of b.
ProtoPortLeq(a, b) ==
  \/ StrLess(a.proto, b.proto)
  \/ a.proto = b.proto /\ Val(a.port) <= Val(b.port)

\* C3: in the report every record's (protocol, port) is lexicographically at most the
\* next record's, the protocol compared as a string and the port as an integer.
C3_ReportSorted ==
  Returned =>
    \A i \in 1..(Len(Val(report)) - 1) : ProtoPortLeq(Val(report)[i], Val(report)[i + 1])

\* C3: a call has returned a report although the adapter's output was out of order.
C3_Witness ==
  /\ Returned
  /\ Len(Val(report)) >= 2
  /\ \E i \in 1..(Len(Val(raw)) - 1) : ~ProtoPortLeq(Val(raw)[i], Val(raw)[i + 1])

SsCmds == {SsTcpCmd, SsUdpCmd}
LsofCmds == {LsofTcpCmd, LsofUdpCmd}

NoMissingPort(recs) == \A i \in 1..Len(recs) : recs[i].port # None

\* C4: no record of the report has a missing port, and no record the adapters have
\* gathered on the way to it (results, data) has one.
C4_NoMissingPort ==
  /\ NoMissingPort(results)
  /\ NoMissingPort(data)
  /\ Returned => NoMissingPort(Val(report))

\* C4: a command of ss has printed a line of six fields or more that has no parsed
\* port, next to a line whose record was kept.
C4_Witness ==
  /\ lastIO # None
  /\ Val(lastExit).cmd \in SsCmds
  /\ Len(results) > Len(Val(lastIO).had)
  /\ \E i \in 1..Len(Val(lastIO).out) :
       /\ SsItem(Val(lastIO).out[i]) # None
       /\ Val(SsItem(Val(lastIO).out[i])).port = None

\* C5: every record of the report has a lower-case protocol that is tcp or udp.
C5_ProtocolIsTcpOrUdp ==
  Returned =>
    \A i \in 1..Len(Val(report)) :
      /\ Val(report)[i].proto = Lower(Val(report)[i].proto)
      /\ Val(report)[i].proto \in {Tcp, Udp}

\* The commands of a call in the order list_open_ports runs them when every one of
\* them is run.
SsRequested == (IF tcp THEN <<SsTcpCmd>> ELSE <<>>) \o (IF udp THEN <<SsUdpCmd>> ELSE <<>>)
LsofRequested ==
  (IF tcp THEN <<LsofTcpCmd>> ELSE <<>>) \o (IF udp THEN <<LsofUdpCmd>> ELSE <<>>)

\* C6: a command that is not installed or exits non-zero never makes the call raise;
\* it leaves the records gathered so far as they were and adds none; the commands
\* after it are still run; and the call returns a report.
C6_CommandFailureIsContained ==
  /\ pc # "raised"
  /\ (lastIO # None /\ Val(lastExit).exc # "none") => results = Val(lastIO).had
  /\ Returned =>
       /\ report # None
       /\ SubSeq(spawned, 1, Len(SsRequested)) = SsRequested
       /\ lsofData # None => spawned = SsRequested \o LsofRequested

\* C6: a call has returned a report with records although its last command, the UDP
\* query of lsof, exited non-zero.
C6_Witness ==
  /\ Returned
  /\ Val(report) # <<>>
  /\ lastExit = Some([cmd |-> LsofUdpCmd, exc |-> "CalledProcessError"])

\* C7 as stated: a request for a port outside 0..65535 is never answered with a
\* description; it is rejected with an error.
C7_OutOfRangeRejected ==
  (caller = "prompt" /\ Val(qport) \notin 0..65535) => answer = None

\* The number of line breaks of a text.
CountBreaks(text) == Cardinality({i \in 1..Len(text) : text[i] = "\n"})

\* C7, amended: check_port_service never rejects a port; for a port outside 0..65535
\* it returns the sentence "No process is currently listening on port <port>." when
\* no record of the report has that port, and otherwise one line "Port <port>/..."
\* for each record of the report that has it.
C7_OutOfRangeAnswered ==
  (Returned /\ caller = "prompt" /\ Val(qport) \notin 0..65535) =>
    LET port == Val(qport)
        hits == {i \in 1..Len(Val(report)) : Val(report)[i].port = Some(port)}
    IN /\ answer # None
       /\ hits = {} => Val(answer) = NoProcessHead \o StrOf(port) \o <<".">>
       /\ hits # {} =>
            /\ StartsAt(Val(answer), 1, PortHead \o StrOf(port) \o <<"/">>)
            /\ CountBreaks(Val(answer)) = Cardinality(hits) - 1

\* C7: check_port_service has answered a request for a port above 65535 that a
\* record of the report carries.
C7_Witness ==
  /\ Returned
  /\ caller = "prompt"
  /\ Val(qport) \notin 0..65535
  /\ \E i \in 1..Len(Val(report)) : Val(report)[i].port = Some(Val(qport))

\* A line of ss is well-formed when it splits into six fields or more (computed once
\* for every line of SsLines).
WellFormedTable == [l \in SsLines |-> Len(SplitFrom(Strip(l), 1, 6)) >= 6]
WellFormed(line) == WellFormedTable[line]

HasParsedPort(line) == WellFormed(line) /\ Val(SsItem(line)).port # None

\* The records of the well-formed lines of out that have a parsed port, in line order.
RECURSIVE RecordsWithParsedPort(_)
RecordsWithParsedPort(out) ==
  IF out = <<>> THEN <<>>
  ELSE (IF HasParsedPort(Head(out)) THEN <<Val(SsItem(Head(out)))>> ELSE <<>>)
       \o RecordsWithParsedPort(Tail(out))

\* C8: when a command of ss has printed its lines, the lines of fewer than six fields
\* add nothing, and every well-formed line that has a parsed port adds its record, in
\* line order.
C8_ShortLineSkipped ==
  (lastIO # None /\ Val(lastExit).cmd \in SsCmds /\ Val(lastExit).exc = "none") =>
    results = Val(lastIO).had \o RecordsWithParsedPort(Val(lastIO).out)

IsPrefix(a, b) == Len(a) <= Len(b) /\ SubSeq(b, 1, Len(a)) = a

\* C9: the commands of a call are spawned one at a time, in the order Primary TCP,
\* Primary UDP, Fallback TCP, Fallback UDP, each only if its protocol was asked for; a
\* Fallback command is spawned only after _run_ss has returned, and only if it
\* returned nothing; when it returned a record, no Fallback command is ever spawned.
C9_SequentialPrimaryThenFallback ==
  /\ IsPrefix(spawned, SsRequested \o LsofRequested)
  /\ running # "none" => spawned # <<>> /\ running = spawned[Len(spawned)]
  /\ (\E i \in 1..Len(spawned) : spawned[i] \in LsofCmds) =>
       ssData # None /\ Val(ssData) = <<>>
  /\ (Returned /\ Val(ssData) # <<>>) => spawned = SsRequested /\ lsofData = None

\* C9: a call for both protocols has returned the Primary adapter's records without
\* spawning a Fallback command, although the UDP query of ss exited non-zero.
C9_Witness ==
  /\ Returned
  /\ Val(report) # <<>>
  /\ spawned = <<SsTcpCmd, SsUdpCmd>>
  /\ lastExit = Some([cmd |-> SsUdpCmd, exc |-> "CalledProcessError"])

HasPortZero(recs) == \E i \in 1..Len(recs) : recs[i].port = Some(0)

\* The records of the well-formed lines of out whose parsed port is neither missing
\* nor 0, in line order.
RECURSIVE RecordsWithNonZeroPort(_)
RecordsWithNonZeroPort(out) ==
  IF out = <<>> THEN <<>>
  ELSE (IF HasParsedPort(Head(out)) /\ Val(SsItem(Head(out))).port # Some(0)
        THEN <<Val(SsItem(Head(out)))>>
        ELSE <<>>)
       \o RecordsWithNonZeroPort(Tail(out))

\* The lines of lsof's output, by index, that are no header and hold an address
\* followed by the port 0.
LsofZeroLines(out) ==
  {i \in 1..Len(out) :
     /\ ~LsofFields(out[i]).header
     /\ LsofFields(out[i]).m # None
     /\ IntOf(Val(LsofFields(out[i]).m)) = 0}

\* C10: the Primary adapter never holds or returns a record with port 0: of the lines
\* of ss exactly the well-formed ones with a parsed port other than 0 add a record;
\* the Fallback adapter adds a record with port 0 for a line whose port is 0; and a
\* report with a port-0 record is made of the Fallback adapter's records.
C10_PortZeroOnlyFromFallback ==
  /\ pc = "ss" => ~HasPortZero(results)
  /\ ssData # None => ~HasPortZero(Val(ssData))
  /\ (lastIO # None /\ Val(lastExit).cmd \in SsCmds /\ Val(lastExit).exc = "none") =>
       results = Val(lastIO).had \o RecordsWithNonZeroPort(Val(lastIO).out)
  /\ (lastIO # None /\ Val(lastExit).cmd \in LsofCmds /\ Val(lastExit).exc = "none") =>
       Cardinality({i \in (Len(Val(lastIO).had) + 1)..Len(results) :
                      results[i].port = Some(0)})
         = Cardinality(LsofZeroLines(Val(lastIO).out))
  /\ (Returned /\ HasPortZero(Val(report))) =>
       lsofData # None /\ FromAdapter(Val(report), Val(lsofData))

\* C10: a call has returned a report that holds a record with port 0.
C10_Witness ==
  /\ Returned
  /\ HasPortZero(Val(report))

====
